---------------------------- MODULE Spec2Model ----------------------------
(***************************************************************************)
(* Bakery inventory & sales API: the Postgres tables `products` and        *)
(* `sales`, the view `product_read_model`, and the Express handlers that   *)
(* read and write them.  Every supabase call is one statement, hence one   *)
(* atomic step of the database; a handler that awaits two calls is two     *)
(* steps, and other requests may run in between.                           *)
(*                                                                         *)
(* Money (numeric(12,2)) is counted in cents, timestamps in clock ticks.   *)
(* A nullable value is a sequence: << >> is NULL, <<v>> is the value v.    *)
(* Storage failures (a supabase call returning `error` for an unreachable  *)
(* database) are not modelled: every statement reaches the database.       *)
(***************************************************************************)
EXTENDS Integers, Sequences, FiniteSets, TLC

(* ------------------------------ bounds -------------------------------- *)
MaxProducts == 2
MaxReq == 2
MaxStock == 2
MaxQty == 2
MaxPrice == 2
MaxClock == 1
MaxLimit == 2

ProductIds == 1..MaxProducts
Reqs == 1..MaxReq

VARIABLES
    products,   \* table public.products: id -> row
    sales,      \* table public.sales: rows in insertion order
    req,        \* POST /sales handlers: r -> position, payload, the fetched
                \* product's price (all the handler reads of it after the stock
                \* check), response
    patchRes,   \* the status and error of the latest PATCH /products/:id response
    clock       \* now()

vars == <<products, sales, req, patchRes, clock>>

NULL == << >>

(* ------------------------------ schemas ------------------------------- *)
productCreateSchema(payload) ==
    /\ payload.name # ""
    /\ payload.price >= 0
    /\ payload.totalStock >= 0
    /\ payload.imagePath # <<"">>

\* body: a function from the supplied keys to their values
productUpdateSchema(body) ==
    /\ ("name" \in DOMAIN body => body.name # "")
    /\ ("price" \in DOMAIN body => body.price >= 0)
    /\ ("totalStock" \in DOMAIN body => body.totalStock >= 0)
    /\ ("imagePath" \in DOMAIN body => body.imagePath # "")
    /\ DOMAIN body # {}

saleCreateSchema(payload) ==
    payload.quantity >= 1

(* --------------------------- the read model --------------------------- *)
RECURSIVE SumQuantity(_, _)
\* sum(s.quantity) over the joined rows I of table tbl
SumQuantity(tbl, I) ==
    IF I = {} THEN 0
    ELSE LET i == CHOOSE x \in I : TRUE
         IN  tbl[i].quantity + SumQuantity(tbl, I \ {i})

\* the rows of `sales` that the left join pairs with product p
\* faulty variant of the join: a cross join, every product is given every sale
JoinedSalesCross(p) == 1..Len(sales)

JoinedSales(p) == {i \in 1..Len(sales) : sales[i].product_id = p}

\* faulty variant of the view: a snapshot that lags one commit behind the
\* ledger (the newest row of `sales` is not in it yet)
product_read_model_lagging ==
    [p \in {q \in DOMAIN products : products[q].deleted_at = NULL} |->
        [id |-> p,
         name |-> products[p].name,
         price |-> products[p].price,
         total_stock |-> products[p].total_stock,
         image_path |-> products[p].image_path,
         sold_quantity |-> SumQuantity(sales, JoinedSales(p) \ {Len(sales)}),
         remaining_stock |->
             products[p].total_stock
                 - SumQuantity(sales, JoinedSales(p) \ {Len(sales)})]]

\* faulty variant of the view: count(s.id) in place of sum(s.quantity)
product_read_model_counting_rows ==
    [p \in {q \in DOMAIN products : products[q].deleted_at = NULL} |->
        [id |-> p,
         name |-> products[p].name,
         price |-> products[p].price,
         total_stock |-> products[p].total_stock,
         image_path |-> products[p].image_path,
         sold_quantity |-> Cardinality(JoinedSales(p)),
         remaining_stock |-> products[p].total_stock - Cardinality(JoinedSales(p))]]

product_read_model ==
    [p \in {q \in DOMAIN products : products[q].deleted_at = NULL} |->
        [id |-> p,
         name |-> products[p].name,
         price |-> products[p].price,
         total_stock |-> products[p].total_stock,
         image_path |-> products[p].image_path,
         sold_quantity |-> SumQuantity(sales, JoinedSales(p)),
         remaining_stock |->
             products[p].total_stock - SumQuantity(sales, JoinedSales(p))]]

toProduct(row) ==
    [id |-> row.id,
     name |-> row.name,
     price |-> row.price,
     totalStock |-> row.total_stock,
     imagePath |-> row.image_path,
     soldQuantity |-> row.sold_quantity,
     remainingStock |-> row.remaining_stock]

toSale(row) ==
    [id |-> row.id,
     productId |-> row.product_id,
     quantity |-> row.quantity,
     unitPrice |-> row.unit_price,
     totalAmount |-> row.total_amount,
     soldAt |-> row.sold_at]

RECURSIVE SumRows(_, _)
\* sum(column) over the rows D of a view; column: row key -> value
SumRows(column, D) ==
    IF D = {} THEN 0
    ELSE LET k == CHOOSE x \in D : TRUE
         IN  column[k] + SumRows(column, D \ {k})

\* faulty variant of the RPC: aggregates over every row of `products`,
\* deleted ones included
get_stats_summary_all_rows ==
    LET D == DOMAIN products
        sold == [p \in D |-> SumQuantity(sales, JoinedSales(p))]
    IN  [total_products |-> Cardinality(D),
         total_stock |-> SumRows([p \in D |-> products[p].total_stock], D),
         total_sold_quantity |-> SumRows(sold, D),
         total_remaining_stock |->
             SumRows([p \in D |-> products[p].total_stock - sold[p]], D)]

\* RPC get_stats_summary(): one row of aggregates over product_read_model
get_stats_summary ==
    LET v == product_read_model
        D == DOMAIN v
    IN  [total_products |-> Cardinality(D),
         total_stock |-> SumRows([p \in D |-> v[p].total_stock], D),
         total_sold_quantity |-> SumRows([p \in D |-> v[p].sold_quantity], D),
         total_remaining_stock |-> SumRows([p \in D |-> v[p].remaining_stock], D)]

\* GET /stats/summary: the StatsSummary the handler answers with
getSummary ==
    LET row == get_stats_summary
    IN  [totalProducts |-> row.total_products,
         totalStock |-> row.total_stock,
         totalSoldQuantity |-> row.total_sold_quantity,
         totalRemainingStock |-> row.total_remaining_stock]

\* Product | null
fetchProductById(id) ==
    IF id \in DOMAIN product_read_model
    THEN <<toProduct(product_read_model[id])>>
    ELSE NULL

(* ----------------------------- responses ------------------------------ *)
sendError(status, error, message) ==
    [status |-> status, error |-> error, message |-> message]

Ok(status) == [status |-> status, error |-> "", message |-> ""]

IdleReq ==
    [pc |-> "idle", payload |-> NULL, price |-> NULL, res |-> NULL, sale |-> NULL]

(* ------------------------------- Init --------------------------------- *)
Init ==
    /\ products = << >>
    /\ sales = << >>
    /\ req = [r \in Reqs |-> IdleReq]
    /\ patchRes = NULL
    /\ clock = 0

(* ------------------------- POST /products ----------------------------- *)
\* id: the value gen_random_uuid() draws
PostProducts(id, payload) ==
    /\ id \notin DOMAIN products
    /\ productCreateSchema(payload)
    /\ products' = (id :> [name |-> payload.name,
                           price |-> payload.price,
                           total_stock |-> payload.totalStock,
                           image_path |-> payload.imagePath,
                           deleted_at |-> NULL]) @@ products
    /\ UNCHANGED <<sales, req, patchRes, clock>>

(* ----------------------- PATCH /products/:id -------------------------- *)
\* faulty variant of updateBody: the row is replaced, a column the body does
\* not supply falling back to its default
updateBodyReplacing(row, body) ==
    [name |-> IF "name" \in DOMAIN body THEN body.name ELSE row.name,
     price |-> IF "price" \in DOMAIN body THEN body.price ELSE row.price,
     total_stock |->
         IF "totalStock" \in DOMAIN body THEN body.totalStock ELSE row.total_stock,
     image_path |->
         IF "imagePath" \in DOMAIN body THEN <<body.imagePath>> ELSE NULL,
     deleted_at |-> row.deleted_at]

\* updateBody applied to one row of `products`
updateBody(row, body) ==
    [name |-> IF "name" \in DOMAIN body THEN body.name ELSE row.name,
     price |-> IF "price" \in DOMAIN body THEN body.price ELSE row.price,
     total_stock |->
         IF "totalStock" \in DOMAIN body THEN body.totalStock ELSE row.total_stock,
     image_path |->
         IF "imagePath" \in DOMAIN body THEN <<body.imagePath>> ELSE row.image_path,
     deleted_at |-> row.deleted_at]

\* faulty variant of the handler: the update also re-derives the unit price of
\* the product's recorded sales
PatchProductsRepricing(id, body) ==
    /\ id \in DOMAIN products
    /\ productUpdateSchema(body)
    /\ products' = [products EXCEPT ![id] = updateBody(products[id], body)]
    /\ patchRes' = <<Ok(200)>>
    /\ sales' = [i \in 1..Len(sales) |->
                    IF sales[i].product_id = id
                    THEN [sales[i] EXCEPT
                            !.unit_price = products'[id].price,
                            !.total_amount = sales[i].quantity * products'[id].price]
                    ELSE sales[i]]
    /\ UNCHANGED <<req, clock>>

\* the rows `.from('products').update(..).eq('id', id)` matches
UpdateMatches(id) == {p \in DOMAIN products : p = id}

PatchProducts(id, body) ==
    /\ IF ~productUpdateSchema(body)
       THEN /\ patchRes' = <<sendError(400, "InvalidRequest", "zod")>>
            /\ UNCHANGED products
       ELSE IF UpdateMatches(id) = {}
       THEN /\ patchRes' = <<sendError(404, "NotFound", "Product not found")>>
            /\ UNCHANGED products
       ELSE /\ products' = [p \in DOMAIN products |->
                               IF p \in UpdateMatches(id)
                               THEN updateBody(products[p], body)
                               ELSE products[p]]
            /\ patchRes' = <<Ok(200)>>
    /\ UNCHANGED <<sales, req, clock>>

(* --------------------------- POST /sales ------------------------------ *)
\* faulty variant of the check: it reads totalStock in place of remainingStock
NotEnoughStockOfTotal(payload, product) ==
    payload.quantity > product.totalStock

\* faulty variant of the check: a sale of all that remains is refused
NotEnoughStockOrLast(payload, product) ==
    payload.quantity >= product.remainingStock

\* the stock check of the handler, on the product it fetched
NotEnoughStock(payload, product) ==
    payload.quantity > product.remainingStock

\* parse, fetchProductById (first await), the null and stock checks
PostSalesFetch(r, payload) ==
    /\ req[r].pc = "idle"
    /\ LET product == fetchProductById(payload.productId)
           done(res) == [req EXCEPT ![r] =
                            [pc |-> "done", payload |-> <<payload>>, price |-> NULL,
                             res |-> <<res>>, sale |-> NULL]]
       IN  req' =
             IF ~saleCreateSchema(payload)
             THEN done(sendError(400, "InvalidRequest", "zod"))
             ELSE IF product = NULL
             THEN done(sendError(404, "NotFound", "Product not found"))
             ELSE IF NotEnoughStock(payload, product[1])
             THEN done(sendError(400, "InvalidRequest", "Not enough stock"))
             ELSE [req EXCEPT ![r] =
                      [pc |-> "insert", payload |-> <<payload>>,
                       price |-> <<product[1].price>>, res |-> NULL, sale |-> NULL]]
    /\ UNCHANGED <<products, sales, patchRes, clock>>

\* the constraints of table `sales` on a new row
sales_checks(row) ==
    /\ row.product_id \in DOMAIN products      \* references products (id)
    /\ row.quantity > 0
    /\ row.unit_price >= 0

\* faulty variant of the insert: an upsert keyed on product_id, which rewrites
\* the product's recorded row
sales_upsert(tbl, row) ==
    IF \E i \in 1..Len(tbl) : tbl[i].product_id = row.product_id
    THEN [i \in 1..Len(tbl) |->
            IF tbl[i].product_id = row.product_id
            THEN [tbl[i] EXCEPT
                    !.quantity = tbl[i].quantity + row.quantity,
                    !.unit_price = row.unit_price,
                    !.total_amount = (tbl[i].quantity + row.quantity) * row.unit_price,
                    !.sold_at = clock]
            ELSE tbl[i]]
    ELSE Append(tbl, [id |-> Len(tbl) + 1,
                      product_id |-> row.product_id,
                      quantity |-> row.quantity,
                      unit_price |-> row.unit_price,
                      total_amount |-> row.quantity * row.unit_price,
                      sold_at |-> clock])

\* faulty variant of the insert: a repeated (product_id, quantity) is taken
\* for a retry of the same sale and not recorded again
sales_insert_once(tbl, row) ==
    IF \E i \in 1..Len(tbl) : /\ tbl[i].product_id = row.product_id
                              /\ tbl[i].quantity = row.quantity
    THEN tbl
    ELSE Append(tbl, [id |-> Len(tbl) + 1,
                      product_id |-> row.product_id,
                      quantity |-> row.quantity,
                      unit_price |-> row.unit_price,
                      total_amount |-> row.quantity * row.unit_price,
                      sold_at |-> clock])

\* insert into sales: id, total_amount and sold_at are filled by the table
sales_insert(tbl, row) ==
    Append(tbl, [id |-> Len(tbl) + 1,
                 product_id |-> row.product_id,
                 quantity |-> row.quantity,
                 unit_price |-> row.unit_price,
                 total_amount |-> row.quantity * row.unit_price,
                 sold_at |-> clock])

\* the insert (second await) and the 201 response
PostSalesInsert(r) ==
    /\ req[r].pc = "insert"
    /\ LET payload == req[r].payload[1]
           row == [product_id |-> payload.productId,
                   quantity |-> payload.quantity,
                   unit_price |-> req[r].price[1]]
       IN  IF sales_checks(row)
           THEN /\ sales' = sales_insert(sales, row)
                /\ req' = [req EXCEPT ![r] =
                              [pc |-> "done", payload |-> <<payload>>, price |-> NULL,
                               res |-> <<Ok(201)>>,
                               sale |-> <<toSale(sales'[Len(sales')])>>]]
           ELSE /\ sales' = sales
                /\ req' = [req EXCEPT ![r] =
                              [pc |-> "done", payload |-> <<payload>>, price |-> NULL,
                               res |-> <<sendError(500, "ServerError", "db")>>,
                               sale |-> NULL]]
    /\ UNCHANGED <<products, patchRes, clock>>

(* ------------------------- the database side -------------------------- *)
\* products.deleted_at is set in the database; no route of the API writes it
SoftDelete(id) ==
    /\ id \in DOMAIN products
    /\ products[id].deleted_at = NULL
    /\ products' = [products EXCEPT ![id].deleted_at = <<clock>>]
    /\ UNCHANGED <<sales, req, patchRes, clock>>

\* time passes: now() grows
Tick ==
    /\ clock < MaxClock
    /\ clock' = clock + 1
    /\ UNCHANGED <<products, sales, req, patchRes>>

(* --------------------------- GET /products ---------------------------- *)
\* the collation of the names in use: the rank of a text in ascending order
Collation == <<"bun", "pie">>
name_rank(name) == CHOOSE i \in 1..Len(Collation) : Collation[i] = name

\* .order('name', { ascending: true }) over product_read_model: the row
\* orders a query can produce.  `order by name` fixes the order of two rows
\* only when their names differ; rows with equal names come in whatever
\* order the plan of that query yields.
order_by_name ==
    LET D == DOMAIN product_read_model
    IN  {ord \in [1..Cardinality(D) -> D] :
            /\ \A i, j \in DOMAIN ord : i # j => ord[i] # ord[j]
            /\ \A i, j \in DOMAIN ord :
                  i < j => name_rank(product_read_model[ord[i]].name)
                             <= name_rank(product_read_model[ord[j]].name)}

\* GET /products?page&limit, the query having produced the rows in order
\* ord: .range(offset, offset + limit - 1) and the exact count
listProducts(page, limit, ord) ==
    LET offset == (page - 1) * limit
        last == IF offset + limit <= Len(ord) THEN offset + limit ELSE Len(ord)
    IN  [items |-> [i \in 1..(last - offset) |->
                       toProduct(product_read_model[ord[offset + i]])],
         total |-> Cardinality(DOMAIN product_read_model)]

(* ----------------------------- best sellers -------------------------- *)
\* faulty variant of the where clause: bounds compared with > and <
sold_at_strictly_in_range(sold_at, from_ts, to_ts) ==
    /\ (from_ts = NULL \/ sold_at > from_ts[1])
    /\ (to_ts = NULL \/ sold_at < to_ts[1])

\* faulty variant of the where clause: no `is null or`, so a comparison with
\* a null bound is not true and the row is dropped
sold_at_in_given_range(sold_at, from_ts, to_ts) ==
    /\ (from_ts # NULL /\ sold_at >= from_ts[1])
    /\ (to_ts # NULL /\ sold_at <= to_ts[1])

\* where (from_ts is null or s.sold_at >= from_ts)
\*   and (to_ts is null or s.sold_at <= to_ts)
sold_at_in_range(sold_at, from_ts, to_ts) ==
    /\ (from_ts = NULL \/ sold_at >= from_ts[1])
    /\ (to_ts = NULL \/ sold_at <= to_ts[1])

\* faulty variant of the join: sales joined to the non-deleted products only
filtered_sales_live(from_ts, to_ts) ==
    {i \in 1..Len(sales) :
        /\ sales[i].product_id \in DOMAIN product_read_model
        /\ sold_at_in_range(sales[i].sold_at, from_ts, to_ts)}

\* filtered_sales: sales joined to products (every row of products, deleted
\* or not), inside the range
filtered_sales(from_ts, to_ts) ==
    {i \in 1..Len(sales) :
        /\ sales[i].product_id \in DOMAIN products
        /\ sold_at_in_range(sales[i].sold_at, from_ts, to_ts)}

RECURSIVE SumTotalAmount(_, _)
\* sum(total_amount) over the rows I of table tbl
SumTotalAmount(tbl, I) ==
    IF I = {} THEN 0
    ELSE LET i == CHOOSE x \in I : TRUE
         IN  tbl[i].total_amount + SumTotalAmount(tbl, I \ {i})

\* aggregated: one row per product_id of the filtered sales
aggregated(F) ==
    [p \in {sales[i].product_id : i \in F} |->
        LET G == {i \in F : sales[i].product_id = p}
        IN  [product_id |-> p,
             name |-> products[p].name,
             price |-> products[p].price,
             sold_quantity |-> SumQuantity(sales, G),
             total_revenue |-> SumTotalAmount(sales, G)]]

\* faulty variant of the ordering: ties go to the largest product_id
best_by_quantity_last(agg) ==
    IF DOMAIN agg = {} THEN NULL
    ELSE << agg[CHOOSE p \in DOMAIN agg :
                  \A q \in DOMAIN agg :
                      \/ agg[p].sold_quantity > agg[q].sold_quantity
                      \/ /\ agg[p].sold_quantity = agg[q].sold_quantity
                         /\ p >= q] >>

\* order by sold_quantity desc, product_id limit 1 (no row: NULL)
best_by_quantity(agg) ==
    IF DOMAIN agg = {} THEN NULL
    ELSE << agg[CHOOSE p \in DOMAIN agg :
                  \A q \in DOMAIN agg :
                      \/ agg[p].sold_quantity > agg[q].sold_quantity
                      \/ /\ agg[p].sold_quantity = agg[q].sold_quantity
                         /\ p <= q] >>

\* faulty variant of the ordering: the revenue row is the quantity row
best_by_revenue_of_quantity(agg) == best_by_quantity(agg)

\* order by total_revenue desc, product_id limit 1 (no row: NULL)
best_by_revenue(agg) ==
    IF DOMAIN agg = {} THEN NULL
    ELSE << agg[CHOOSE p \in DOMAIN agg :
                  \A q \in DOMAIN agg :
                      \/ agg[p].total_revenue > agg[q].total_revenue
                      \/ /\ agg[p].total_revenue = agg[q].total_revenue
                         /\ p <= q] >>

\* RPC get_best_sellers(from_ts, to_ts): the json object; a scalar subselect
\* over no row is null
get_best_sellers(from_ts, to_ts) ==
    LET agg == aggregated(filtered_sales(from_ts, to_ts))
        bq == best_by_quantity(agg)
        br == best_by_revenue(agg)
    IN  [bestByQuantity |->
             IF bq = NULL THEN NULL
             ELSE << [productId |-> bq[1].product_id,
                      name |-> bq[1].name,
                      price |-> bq[1].price,
                      soldQuantity |-> bq[1].sold_quantity] >>,
         bestByRevenue |->
             IF br = NULL THEN NULL
             ELSE << [productId |-> br[1].product_id,
                      name |-> br[1].name,
                      price |-> br[1].price,
                      soldQuantity |-> br[1].sold_quantity,
                      totalRevenue |-> br[1].total_revenue] >>]

\* GET /stats/best-sellers?from&to: an omitted bound is passed as null
getBestSellers(from, to) == get_best_sellers(from, to)

(* --------------------------- specification ---------------------------- *)
Names == {"bun"}
Prices == 1..MaxPrice
CreatePayloads ==
    [name : Names, price : Prices, totalStock : 0..MaxStock, imagePath : {NULL}]
PatchBodies ==
    {[k \in {"price"} |-> v] : v \in Prices}
        \cup {[k \in {"totalStock"} |-> v] : v \in 0..MaxStock}
SalePayloads == [productId : ProductIds, quantity : 0..MaxQty]

Next ==
    \/ \E id \in ProductIds, payload \in CreatePayloads : PostProducts(id, payload)
    \/ \E id \in ProductIds, body \in PatchBodies : PatchProducts(id, body)
    \/ \E r \in Reqs, payload \in SalePayloads : PostSalesFetch(r, payload)
    \/ \E r \in Reqs : PostSalesInsert(r)
    \/ \E id \in ProductIds : SoftDelete(id)

Spec == Init /\ [][Next]_vars

(* ------------- N concurrent unit sales of one product ---------------- *)
NConcurrent == 3
TheProduct == CHOOSE p \in ProductIds : TRUE
UnitSale == [productId |-> TheProduct, quantity |-> 1]

InitConcurrentSales ==
    /\ products = << >>
    /\ sales = << >>
    /\ req = [r \in 1..NConcurrent |-> IdleReq]
    /\ patchRes = NULL
    /\ clock = 0

NextConcurrentSales ==
    \/ \E payload \in CreatePayloads : PostProducts(TheProduct, payload)
    \/ \E r \in 1..NConcurrent : PostSalesFetch(r, UnitSale)
    \/ \E r \in 1..NConcurrent : PostSalesInsert(r)
    \/ Tick

SpecConcurrentSales == InitConcurrentSales /\ [][NextConcurrentSales]_vars

(* ------------- sales over time, for the statistics -------------------- *)
StatsPrices == {1, MaxPrice + 1}
StatsCreatePayloads ==
    [name : Names, price : StatsPrices, totalStock : {MaxStock},
     imagePath : {NULL}]
StatsSalePayloads == [productId : ProductIds, quantity : 1..MaxQty]

\* the from and to a caller passes: omitted, or a time
RangeBounds == {NULL} \cup {<<t>> : t \in 0..MaxClock}

NextStats ==
    \/ \E id \in ProductIds, payload \in StatsCreatePayloads :
          PostProducts(id, payload)
    \/ \E r \in Reqs, payload \in StatsSalePayloads : PostSalesFetch(r, payload)
    \/ \E r \in Reqs : PostSalesInsert(r)
    \/ \E id \in ProductIds : SoftDelete(id)
    \/ Tick

SpecStats == Init /\ [][NextStats]_vars

(* ------------------- the catalog, with two names ---------------------- *)
CatalogCreatePayloads ==
    [name : {Collation[i] : i \in DOMAIN Collation}, price : Prices,
     totalStock : 0..MaxStock, imagePath : {NULL}]

NextCatalog ==
    \/ \E id \in ProductIds, payload \in CatalogCreatePayloads :
          PostProducts(id, payload)
    \/ \E id \in ProductIds : SoftDelete(id)

SpecCatalog == Init /\ [][NextCatalog]_vars

(* ------------- updates of any subset of the four fields --------------- *)
UpdateFields == {"name", "price", "totalStock", "imagePath"}

\* a product as first created, and the values an update may supply
FirstPayload ==
    [name |-> Collation[1], price |-> 1, totalStock |-> MaxStock,
     imagePath |-> NULL]
FullUpdate ==
    [name |-> Collation[Len(Collation)], price |-> MaxPrice, totalStock |-> 0,
     imagePath |-> "pie.jpg"]

\* the bodies: every subset of the fields (the empty one fails the schema)
UpdateBodies == {[k \in K |-> FullUpdate[k]] : K \in SUBSET UpdateFields}

TheRequest == CHOOSE r \in Reqs : TRUE

InitUpdate ==
    /\ products = << >>
    /\ sales = << >>
    /\ req = [r \in {TheRequest} |-> IdleReq]
    /\ patchRes = NULL
    /\ clock = 0

NextUpdate ==
    \/ \E id \in ProductIds : PostProducts(id, FirstPayload)
    \/ \E id \in ProductIds, body \in UpdateBodies : PatchProducts(id, body)
    \/ \E id \in ProductIds :
          PostSalesFetch(TheRequest, [productId |-> id, quantity |-> 1])
    \/ PostSalesInsert(TheRequest)

SpecUpdate == InitUpdate /\ [][NextUpdate]_vars

(* ------ calls on one product one after the other, stock not lowered --- *)
\* a POST /sales on product p is between its stock read and its insert
InFlight(p) ==
    \E r \in DOMAIN req : req[r].pc = "insert" /\ req[r].payload[1].productId = p

\* the body does not lower the total stock of product id
KeepsStock(id, body) ==
    ("totalStock" \in DOMAIN body /\ id \in DOMAIN products)
        => body.totalStock >= products[id].total_stock

NextSerial ==
    \/ \E id \in ProductIds, payload \in CreatePayloads : PostProducts(id, payload)
    \/ \E id \in ProductIds, body \in PatchBodies :
          ~InFlight(id) /\ KeepsStock(id, body) /\ PatchProducts(id, body)
    \/ \E r \in Reqs, payload \in SalePayloads :
          ~InFlight(payload.productId) /\ PostSalesFetch(r, payload)
    \/ \E r \in Reqs : PostSalesInsert(r)

SpecSerial == Init /\ [][NextSerial]_vars

(* ------------------------------ claims -------------------------------- *)
Min(a, b) == IF a <= b THEN a ELSE b
Max(a, b) == IF a >= b THEN a ELSE b

RECURSIVE LedgerQuantity(_, _, _)
\* the quantities of the first n ledger rows of tbl that reference product p
LedgerQuantity(tbl, p, n) ==
    IF n = 0 THEN 0
    ELSE LedgerQuantity(tbl, p, n - 1)
            + (IF tbl[n].product_id = p THEN tbl[n].quantity ELSE 0)

Visible(p) == p \in DOMAIN products /\ products[p].deleted_at = NULL

\* C1: every product's remainingStock, as any read returns it, is >= 0 in
\* every state.
C1_RemainingStockNeverNegative ==
    \A p \in DOMAIN product_read_model :
        /\ product_read_model[p].remaining_stock >= 0
        /\ fetchProductById(p)[1].remainingStock >= 0

\* C2: N concurrent unit sales of a product with totalStock K and no prior
\* sales end with min(N, K) admitted, N - min(N, K) rejected for stock, and
\* remainingStock max(K - N, 0).
C2_ConcurrentUnitSales ==
    LET done == {r \in DOMAIN req : req[r].pc = "done"}
        admitted == Cardinality({r \in done : req[r].res[1].status = 201})
        rejected == Cardinality({r \in done :
                                   req[r].res[1].message = "Not enough stock"})
        N == NConcurrent
    IN  (admitted + rejected = N) =>
            LET K == products[TheProduct].total_stock
            IN  /\ admitted = Min(N, K)
                /\ rejected = N - Min(N, K)
                /\ product_read_model[TheProduct].remaining_stock = Max(K - N, 0)

\* C3: a recordSale whose quantity exceeds the product's remainingStock is
\* rejected, and the rejection leaves the ledger and the product's
\* soldQuantity and remainingStock as they were; an answered request appends
\* nothing afterwards.
C3_RejectedSaleAppendsNothing ==
    [][\A r \in DOMAIN req :
          /\ (req[r].pc = "idle" /\ req'[r].pc # "idle") =>
                LET payload == req'[r].payload[1]
                    p == payload.productId
                IN  (/\ saleCreateSchema(payload)
                     /\ p \in DOMAIN product_read_model
                     /\ payload.quantity > product_read_model[p].remaining_stock)
                    => /\ req'[r].pc = "done"
                       /\ req'[r].res[1].status = 400
                       /\ req'[r].sale = NULL
                       /\ sales' = sales
                       /\ product_read_model' = product_read_model
          /\ (req[r].pc = "done" /\ req[r].res[1].status # 201) =>
                (req'[r] = req[r] /\ \A i \in 1..Len(sales') :
                                        req[r].sale # <<toSale(sales'[i])>>)
      ]_vars

C3_Witness ==
    \E r \in DOMAIN req :
        /\ req[r].pc = "done"
        /\ req[r].res[1].message = "Not enough stock"
        /\ LET p == req[r].payload[1].productId
           IN  /\ p \in DOMAIN product_read_model
               /\ product_read_model[p].sold_quantity >= 1
               /\ product_read_model[p].remaining_stock >= 1
               /\ req[r].payload[1].quantity > product_read_model[p].remaining_stock

\* C4: an updateProduct whose totalStock is below the product's current
\* soldQuantity fails with ConflictError and leaves the stored product
\* unchanged.
C4_ShrinkBelowSoldIsConflict ==
    [][\A id \in ProductIds, body \in PatchBodies :
          (/\ PatchProducts(id, body)
           /\ id \in DOMAIN product_read_model
           /\ "totalStock" \in DOMAIN body
           /\ body.totalStock < product_read_model[id].sold_quantity)
          => (patchRes'[1].error = "ConflictError" /\ products' = products)
      ]_vars

\* C5: the unitPrice of every admitted sale is the product's price in the
\* state in which the sale is committed.
C5_UnitPriceIsPriceAtCommit ==
    [][Len(sales') > Len(sales) =>
          LET s == sales'[Len(sales')]
          IN  s.unit_price = products'[s.product_id].price
      ]_vars

\* C6: for every non-deleted product the read model's soldQuantity is the
\* sum of the quantities of the ledger's sales of that product, and its
\* remainingStock is totalStock minus that sum.
C6_ReadModelMatchesLedger ==
    \A p \in DOMAIN products :
        products[p].deleted_at = NULL =>
            /\ fetchProductById(p) # NULL
            /\ fetchProductById(p)[1].soldQuantity
                    = LedgerQuantity(sales, p, Len(sales))
            /\ fetchProductById(p)[1].remainingStock
                    = products[p].total_stock - LedgerQuantity(sales, p, Len(sales))

C6_Witness ==
    \E p, q \in DOMAIN product_read_model :
        /\ p # q
        /\ product_read_model[p].sold_quantity = 2
        /\ product_read_model[q].sold_quantity = 1
        /\ Len(sales) = 2

\* C7: the ledger is append-only: a sale, once recorded, is in every later
\* state with the same id, productId, quantity, unitPrice, totalAmount and
\* soldAt.
C7_LedgerAppendOnly ==
    [][/\ Len(sales') >= Len(sales)
       /\ \A i \in 1..Len(sales) :
             /\ sales'[i] = sales[i]
             /\ toSale(sales'[i]) = toSale(sales[i])
      ]_vars

C7_Witness ==
    /\ Len(sales) = 2
    /\ sales[1].id # sales[2].id
    /\ sales[1].product_id = sales[2].product_id
    /\ products[sales[1].product_id].deleted_at # NULL
    /\ patchRes # NULL /\ patchRes[1].status = 200

\* C8: a step that changes a product's price records no sale and leaves the
\* unitPrice and totalAmount of every recorded sale unchanged.
C8_PriceUpdateKeepsRecordedPrices ==
    [][\A p \in DOMAIN products :
          (p \in DOMAIN products' /\ products'[p].price # products[p].price) =>
              /\ Len(sales') = Len(sales)
              /\ \A i \in 1..Len(sales) :
                    /\ sales'[i].unit_price = sales[i].unit_price
                    /\ sales'[i].total_amount = sales[i].total_amount
      ]_vars

C8_Witness ==
    /\ patchRes # NULL /\ patchRes[1].status = 200
    /\ \E i \in 1..Len(sales) :
          /\ sales[i].unit_price # products[sales[i].product_id].price
          /\ sales[i].total_amount = sales[i].quantity * sales[i].unit_price

\* C9: a recordSale on a product that does not exist or is soft-deleted is
\* answered NotFound and appends no sale, also when the product is
\* soft-deleted between the handler's read and its insert.
C9_NoSaleOnMissingOrDeletedProduct ==
    [][/\ \A r \in DOMAIN req :
             (req[r].pc = "idle" /\ req'[r].pc # "idle") =>
                 LET payload == req'[r].payload[1]
                 IN  (saleCreateSchema(payload) /\ ~Visible(payload.productId))
                     => /\ req'[r].pc = "done"
                        /\ req'[r].res[1].error = "NotFound"
                        /\ sales' = sales
       /\ Len(sales') > Len(sales) => Visible(sales'[Len(sales')].product_id)
      ]_vars

\* C10: an updateProduct on an id that does not exist or whose product is
\* soft-deleted is answered NotFound and changes no stored product field.
C10_PatchMissingOrDeletedIsNotFound ==
    [][\A id \in ProductIds, body \in PatchBodies :
          (PatchProducts(id, body) /\ productUpdateSchema(body) /\ ~Visible(id))
          => (patchRes'[1].error = "NotFound" /\ products' = products)
      ]_vars


\* C11: a recordSale rejected for stock is answered with the error kind
\* InsufficientStock, a different error value from the one a malformed
\* request (here a non-positive quantity) is answered with.
C11_InsufficientStockIsItsOwnError ==
    \A r \in DOMAIN req :
        (/\ req[r].pc = "done"
         /\ saleCreateSchema(req[r].payload[1])
         /\ req[r].res[1].status = 400)
        => /\ req[r].res[1].error = "InsufficientStock"
           /\ req[r].res[1].error
                  # sendError(400, "InvalidRequest", "zod").error

\* C12: two successful recordSale calls with the same (productId, quantity)
\* record two sales with distinct ids, and the product's ledger quantity
\* holds the quantity twice.
C12_RecordSaleNotIdempotent ==
    \A r1, r2 \in DOMAIN req :
        (/\ r1 # r2
         /\ req[r1].pc = "done" /\ req[r1].res[1].status = 201
         /\ req[r2].pc = "done" /\ req[r2].res[1].status = 201
         /\ req[r1].payload = req[r2].payload)
        => LET s1 == req[r1].sale[1]
               s2 == req[r2].sale[1]
               p == req[r1].payload[1].productId
               q == req[r1].payload[1].quantity
           IN  /\ s1.id # s2.id
               /\ \E i, j \in 1..Len(sales) :
                     /\ i # j
                     /\ toSale(sales[i]) = s1
                     /\ toSale(sales[j]) = s2
               /\ s1.quantity = q /\ s2.quantity = q
               /\ LedgerQuantity(sales, p, Len(sales)) >= 2 * q
               /\ Visible(p) =>
                     /\ product_read_model[p].sold_quantity >= 2 * q
                     /\ product_read_model[p].remaining_stock
                            <= products[p].total_stock - 2 * q

C12_Witness ==
    \E r1, r2 \in DOMAIN req :
        /\ r1 # r2
        /\ req[r1].pc = "done" /\ req[r1].res[1].status = 201
        /\ req[r2].pc = "done" /\ req[r2].res[1].status = 201
        /\ req[r1].payload = req[r2].payload
        /\ Visible(req[r1].payload[1].productId)
        /\ product_read_model[req[r1].payload[1].productId].sold_quantity = 2
        /\ product_read_model[req[r1].payload[1].productId].remaining_stock = 0


RECURSIVE CommittedQuantity(_, _)
\* the quantities of the sales of product p that requests 1..n were answered
\* 201 for
CommittedQuantity(p, n) ==
    IF n = 0 THEN 0
    ELSE CommittedQuantity(p, n - 1)
            + (IF /\ req[n].pc = "done"
                  /\ req[n].res[1].status = 201
                  /\ req[n].sale[1].productId = p
               THEN req[n].sale[1].quantity ELSE 0)

NReq == Cardinality(DOMAIN req)

RECURSIVE VisibleCommitted(_)
\* the committed quantities of the non-deleted products among 1..n
VisibleCommitted(n) ==
    IF n = 0 THEN 0
    ELSE VisibleCommitted(n - 1)
            + (IF Visible(n) THEN CommittedQuantity(n, NReq) ELSE 0)

\* C13: every sale a recordSale was answered 201 for is in what the reads
\* return from then on: a non-deleted product's soldQuantity is the sum of
\* its committed sales, its remainingStock is totalStock minus that sum, and
\* getSummary's totalSoldQuantity is the sum over the non-deleted products.
C13_ReadsReflectCommittedSales ==
    /\ \A p \in DOMAIN products :
          Visible(p) =>
              /\ fetchProductById(p)[1].soldQuantity = CommittedQuantity(p, NReq)
              /\ fetchProductById(p)[1].remainingStock
                     = products[p].total_stock - CommittedQuantity(p, NReq)
    /\ getSummary.totalSoldQuantity = VisibleCommitted(MaxProducts)

C13_Witness ==
    \E r1, r2 \in DOMAIN req :
        /\ req[r1].pc = "done" /\ req[r1].res[1].status = 201
        /\ req[r2].pc = "insert"
        /\ req[r2].payload[1].productId = req[r1].sale[1].productId
        /\ Visible(req[r1].sale[1].productId)
        /\ fetchProductById(req[r1].sale[1].productId)[1].soldQuantity
               = req[r1].sale[1].quantity
        /\ getSummary.totalSoldQuantity = req[r1].sale[1].quantity


\* a recordSale or updateProduct step on product a
\* (either step of a recordSale whose payload names a, or an update that
\* rewrote a's row)
OperationOn(a) ==
    \/ \E r \in Reqs :
          /\ req'[r] # req[r]
          /\ req'[r].payload[1].productId = a
    \/ /\ a \in DOMAIN products
       /\ a \in DOMAIN products'
       /\ products'[a] # products[a]
       /\ products'[a].deleted_at = products[a].deleted_at

\* the status a recordSale with this payload is answered with when its stock
\* check reads this product
SaleOutcome(payload, product) ==
    IF ~saleCreateSchema(payload) THEN 400
    ELSE IF product = NULL THEN 404
    ELSE IF NotEnoughStock(payload, product[1]) THEN 400
    ELSE 201

\* C14: a recordSale or updateProduct step on product a leaves every other
\* product b as it was: its row, its read-model figures, the outcome of any
\* recordSale on b, and every in-flight recordSale on b, which can still
\* complete.
C14_OtherProductsUntouched ==
    [][\A a, b \in ProductIds :
          (a # b /\ OperationOn(a)) =>
              /\ (b \in DOMAIN products) = (b \in DOMAIN products')
              /\ b \in DOMAIN products => products'[b] = products[b]
              /\ LedgerQuantity(sales', b, Len(sales'))
                     = LedgerQuantity(sales, b, Len(sales))
              /\ \A before \in {fetchProductById(b)} :
                 \A after \in {fetchProductById(b)'} :
                     /\ after = before
                     /\ \A quantity \in 0..MaxQty :
                            LET payload == [productId |-> b,
                                            quantity |-> quantity]
                            IN  SaleOutcome(payload, after)
                                   = SaleOutcome(payload, before)
              /\ \A r \in Reqs :
                     (req[r].pc = "insert" /\ req[r].payload[1].productId = b)
                         => req'[r] = req[r]]_vars

C14_Witness ==
    \E r1, r2 \in Reqs :
        /\ req[r1].pc = "done" /\ req[r1].res[1].status = 201
        /\ req[r2].pc = "done" /\ req[r2].res[1].status = 201
        /\ req[r1].sale[1].productId # req[r2].sale[1].productId
        /\ req[r1].sale[1].id < req[r2].sale[1].id
        /\ Visible(req[r2].sale[1].productId)
        /\ req[r2].sale[1].quantity
               = products[req[r2].sale[1].productId].total_stock
        /\ product_read_model[req[r2].sale[1].productId].remaining_stock = 0


RECURSIVE SumOverVisible(_, _)
\* the sum of column[p] over the non-deleted products among 1..n
SumOverVisible(column, n) ==
    IF n = 0 THEN 0
    ELSE SumOverVisible(column, n - 1) + (IF Visible(n) THEN column[n] ELSE 0)

\* C15: getSummary's totalProducts is the number of non-deleted products and
\* its three totals are the sums of totalStock, soldQuantity and
\* remainingStock over exactly those products; with none, all four are 0.
C15_SummaryOverNonDeleted ==
    LET live == {p \in DOMAIN products : Visible(p)}
        stock == [p \in ProductIds |->
                     IF p \in live THEN products[p].total_stock ELSE 0]
        sold == [p \in ProductIds |-> LedgerQuantity(sales, p, Len(sales))]
        left == [p \in ProductIds |-> stock[p] - sold[p]]
    IN  /\ getSummary.totalProducts = Cardinality(live)
        /\ getSummary.totalStock = SumOverVisible(stock, MaxProducts)
        /\ getSummary.totalSoldQuantity = SumOverVisible(sold, MaxProducts)
        /\ getSummary.totalRemainingStock = SumOverVisible(left, MaxProducts)
        /\ live = {} =>
               getSummary = [totalProducts |-> 0, totalStock |-> 0,
                             totalSoldQuantity |-> 0,
                             totalRemainingStock |-> 0]

\* a live product with stock 2 and one unit sold next to a deleted product
\* that had stock and sales: the summary speaks of the live one only
C15_Witness ==
    /\ \E p, q \in DOMAIN products :
          /\ Visible(p) /\ ~Visible(q)
          /\ products[p].total_stock = 2
          /\ LedgerQuantity(sales, p, Len(sales)) = 1
          /\ products[q].total_stock > 0
          /\ LedgerQuantity(sales, q, Len(sales)) > 0
    /\ getSummary = [totalProducts |-> 1, totalStock |-> 2,
                     totalSoldQuantity |-> 1, totalRemainingStock |-> 1]

\* fromTs <= soldAt <= toTs, an omitted bound being open
InWindow(soldAt, fromTs, toTs) ==
    /\ (fromTs # NULL => fromTs[1] <= soldAt)
    /\ (toTs # NULL => soldAt <= toTs[1])

RECURSIVE QuantityIn(_, _, _, _)
\* the units of product p sold in the window, over the first n ledger rows
QuantityIn(p, fromTs, toTs, n) ==
    IF n = 0 THEN 0
    ELSE QuantityIn(p, fromTs, toTs, n - 1)
            + (IF /\ sales[n].product_id = p
                  /\ InWindow(sales[n].sold_at, fromTs, toTs)
               THEN sales[n].quantity ELSE 0)

RECURSIVE RevenueIn(_, _, _, _)
\* the amount product p sold for in the window, over the first n ledger rows
RevenueIn(p, fromTs, toTs, n) ==
    IF n = 0 THEN 0
    ELSE RevenueIn(p, fromTs, toTs, n - 1)
            + (IF /\ sales[n].product_id = p
                  /\ InWindow(sales[n].sold_at, fromTs, toTs)
               THEN sales[n].quantity * sales[n].unit_price ELSE 0)

\* the products with a sale in the window
Sellers(fromTs, toTs) ==
    {sales[i].product_id :
        i \in {j \in 1..Len(sales) : InWindow(sales[j].sold_at, fromTs, toTs)}}

\* C16: when the window holds sales, bestByQuantity is a product whose
\* summed quantity in the window is the largest, and among the products with
\* that quantity it is the one with the smallest id.
C16_BestByQuantity ==
    \A fromTs, toTs \in RangeBounds :
        LET S == Sellers(fromTs, toTs)
            best == getBestSellers(fromTs, toTs).bestByQuantity
            Q(p) == QuantityIn(p, fromTs, toTs, Len(sales))
        IN  S # {} =>
                /\ best # NULL
                /\ best[1].productId \in S
                /\ \A p \in S :
                      \/ Q(p) < Q(best[1].productId)
                      \/ Q(p) = Q(best[1].productId) /\ best[1].productId <= p

C16_Witness ==
    \E fromTs, toTs \in RangeBounds :
        \E p, q \in Sellers(fromTs, toTs) :
            /\ p < q
            /\ QuantityIn(p, fromTs, toTs, Len(sales))
                  = QuantityIn(q, fromTs, toTs, Len(sales))
            /\ getBestSellers(fromTs, toTs).bestByQuantity[1].productId = p

\* C17: when the window holds sales, bestByRevenue is a product whose summed
\* totalAmount in the window is the largest, the smallest id among those; it
\* is chosen without regard to bestByQuantity.
C17_BestByRevenue ==
    \A fromTs, toTs \in RangeBounds :
        LET S == Sellers(fromTs, toTs)
            best == getBestSellers(fromTs, toTs).bestByRevenue
            R(p) == RevenueIn(p, fromTs, toTs, Len(sales))
        IN  S # {} =>
                /\ best # NULL
                /\ best[1].productId \in S
                /\ \A p \in S :
                      \/ R(p) < R(best[1].productId)
                      \/ R(p) = R(best[1].productId) /\ best[1].productId <= p

\* the two best sellers differ: one sold more units, the other for more money
C17_Witness ==
    \E fromTs, toTs \in RangeBounds :
        LET r == getBestSellers(fromTs, toTs)
        IN  /\ r.bestByQuantity # NULL
            /\ r.bestByRevenue # NULL
            /\ r.bestByQuantity[1].productId # r.bestByRevenue[1].productId
            /\ r.bestByQuantity[1].soldQuantity > r.bestByRevenue[1].soldQuantity
            /\ r.bestByRevenue[1].totalRevenue
                  > RevenueIn(r.bestByQuantity[1].productId, fromTs, toTs,
                              Len(sales))

\* C18: getBestSellers answers with bestByQuantity and bestByRevenue both
\* null exactly when no sale has its soldAt in the window (the empty ledger
\* included); it is an answer, not an error.
C18_NullWithoutSalesInWindow ==
    \A fromTs, toTs \in RangeBounds :
        LET r == getBestSellers(fromTs, toTs)
        IN  /\ (r.bestByQuantity = NULL /\ r.bestByRevenue = NULL)
                  <=> Sellers(fromTs, toTs) = {}
            /\ (r.bestByQuantity = NULL) <=> (r.bestByRevenue = NULL)

\* a ledger with sales, a window that holds none of them and one that does
C18_Witness ==
    /\ Len(sales) > 0
    /\ \E fromTs, toTs \in RangeBounds :
          /\ fromTs # NULL /\ toTs # NULL /\ fromTs[1] <= toTs[1]
          /\ Sellers(fromTs, toTs) = {}
          /\ getBestSellers(fromTs, toTs)
                = [bestByQuantity |-> NULL, bestByRevenue |-> NULL]
    /\ getBestSellers(NULL, NULL).bestByQuantity # NULL

\* C19: only the sales with fromTs <= soldAt <= toTs, both ends included,
\* count towards the figures of getBestSellers, and an omitted bound is an
\* open one.
C19_WindowInclusive ==
    \A fromTs, toTs \in RangeBounds :
        LET r == getBestSellers(fromTs, toTs)
            bq == r.bestByQuantity
            br == r.bestByRevenue
        IN  /\ bq # NULL =>
                  bq[1].soldQuantity
                      = QuantityIn(bq[1].productId, fromTs, toTs, Len(sales))
            /\ br # NULL =>
                  /\ br[1].soldQuantity
                        = QuantityIn(br[1].productId, fromTs, toTs, Len(sales))
                  /\ br[1].totalRevenue
                        = RevenueIn(br[1].productId, fromTs, toTs, Len(sales))
            /\ fromTs = NULL => r = getBestSellers(<<0>>, toTs)
            /\ toTs = NULL => r = getBestSellers(fromTs, <<MaxClock>>)

\* two sales of one product, one at each end of the clock: a window that is
\* a single instant counts the sale made at that instant and not the other
C19_Witness ==
    /\ Len(sales) = 2
    /\ \E i, j \in 1..Len(sales) :
          /\ sales[i].product_id = sales[j].product_id
          /\ sales[i].sold_at < sales[j].sold_at
          /\ getBestSellers(<<sales[j].sold_at>>, <<sales[j].sold_at>>)
                 .bestByQuantity[1].soldQuantity = sales[j].quantity
          /\ getBestSellers(NULL, <<sales[i].sold_at>>)
                 .bestByQuantity[1].soldQuantity = sales[i].quantity
          /\ getBestSellers(NULL, NULL).bestByQuantity[1].soldQuantity
                 = sales[i].quantity + sales[j].quantity


\* the pages 1, 2, ... that cover n rows at this limit
LastPage(n, limit) == IF n = 0 THEN 1 ELSE (n + limit - 1) \div limit

\* C20: with no write in between, the pages 1, 2, ... of listProducts hold
\* every non-deleted product exactly once, in ascending order of name, and
\* each page reports the number of non-deleted products as its total, also
\* when products share a name.
C20_PagesHoldEachProductOnce ==
    \A limit \in 1..MaxLimit :
        LET live == {p \in DOMAIN products : Visible(p)}
            pages == 1..LastPage(Cardinality(live), limit)
        IN  \A ords \in [pages -> order_by_name] :
                LET page(k) == listProducts(k, limit, ords[k])
                    cells == {c \in pages \X (1..limit) :
                                 c[2] \in DOMAIN page(c[1]).items}
                    at(c) == page(c[1]).items[c[2]]
                IN  /\ \A k \in pages : page(k).total = Cardinality(live)
                    /\ \A p \in live :
                          Cardinality({c \in cells : at(c).id = p}) = 1
                    /\ \A c \in cells : at(c).id \in live
                    /\ \A c, d \in cells :
                          (c[1] < d[1] \/ (c[1] = d[1] /\ c[2] < d[2]))
                              => name_rank(at(c).name) <= name_rank(at(d).name)


\* C21: an updateProduct answered 200 sets each supplied field of the
\* product to the supplied value and leaves its other fields, every other
\* product and the sale ledger as they were.
C21_UpdateChangesSuppliedFieldsOnly ==
    [][\A id \in ProductIds, body \in UpdateBodies :
          (PatchProducts(id, body) /\ patchRes' = <<Ok(200)>>) =>
              /\ DOMAIN products' = DOMAIN products
              /\ products'[id].name =
                     IF "name" \in DOMAIN body
                     THEN body.name ELSE products[id].name
              /\ products'[id].price =
                     IF "price" \in DOMAIN body
                     THEN body.price ELSE products[id].price
              /\ products'[id].total_stock =
                     IF "totalStock" \in DOMAIN body
                     THEN body.totalStock ELSE products[id].total_stock
              /\ products'[id].image_path =
                     IF "imagePath" \in DOMAIN body
                     THEN <<body.imagePath>> ELSE products[id].image_path
              /\ products'[id].deleted_at = products[id].deleted_at
              /\ \A p \in DOMAIN products \ {id} : products'[p] = products[p]
              /\ sales' = sales]_vars

\* an update has been answered 200; one product has a supplied image path and
\* name next to its first price and stock, the other product is as created,
\* and the ledger holds a sale
C21_Witness ==
    /\ patchRes = <<Ok(200)>>
    /\ Len(sales) > 0
    /\ \E p, q \in DOMAIN products :
          /\ p # q
          /\ products[p].name = FullUpdate.name
          /\ products[p].image_path = <<FullUpdate.imagePath>>
          /\ products[p].price = FirstPayload.price
          /\ products[p].total_stock = FirstPayload.totalStock
          /\ products[q].name = FirstPayload.name
          /\ products[q].image_path = NULL


\* remainingStock of every product row, deleted or not: totalStock minus the
\* ledger quantity
Remaining(p) == products[p].total_stock - LedgerQuantity(sales, p, Len(sales))

\* a well-formed recordSale on a non-deleted product has its stock read in
\* this step: it goes on to the insert iff quantity <= remainingStock now,
\* and is answered 400 otherwise
AdmissionStep(r) ==
    (/\ req[r].pc = "idle" /\ req'[r].pc # "idle"
     /\ saleCreateSchema(req'[r].payload[1])
     /\ Visible(req'[r].payload[1].productId))
    => /\ (req'[r].pc = "insert")
             <=> (req'[r].payload[1].quantity
                     <= Remaining(req'[r].payload[1].productId))
       /\ req'[r].pc = "done" => req'[r].res[1].status = 400

\* the insert of an admitted recordSale: answered 201, the ledger one row
\* longer by its quantity
CommitStep(r) ==
    (req[r].pc = "insert" /\ req'[r].pc = "done")
    => /\ req'[r].res[1].status = 201
       /\ Len(sales') = Len(sales) + 1
       /\ req'[r].sale[1].quantity = req[r].payload[1].quantity
       /\ Remaining(req[r].payload[1].productId)'
             = Remaining(req[r].payload[1].productId)
                  - req[r].payload[1].quantity

\* C22: when the calls on a product run one after the other and totalStock
\* is never lowered, a well-formed sale on an existing product is admitted
\* if and only if its quantity is <= the remainingStock at the time of the
\* call, and remainingStock >= 0 in every state.
C22_SerialAdmission ==
    /\ [](\A p \in DOMAIN products : Remaining(p) >= 0)
    /\ [](\A p \in DOMAIN product_read_model :
             product_read_model[p].remaining_stock >= 0)
    /\ [][\A r \in Reqs : AdmissionStep(r) /\ CommitStep(r)]_vars

\* an update was answered 200, a sale of a product's whole stock was
\* admitted, and another sale of the same product was refused for stock
C22_Witness ==
    /\ patchRes = <<Ok(200)>>
    /\ \E r1, r2 \in Reqs :
          /\ req[r1].pc = "done" /\ req[r1].res[1].status = 201
          /\ req[r2].pc = "done" /\ req[r2].res[1].status = 400
          /\ saleCreateSchema(req[r2].payload[1])
          /\ req[r2].payload[1].productId = req[r1].sale[1].productId
          /\ Visible(req[r1].sale[1].productId)
          /\ req[r1].sale[1].quantity
                 = products[req[r1].sale[1].productId].total_stock
          /\ Remaining(req[r1].sale[1].productId) = 0


\* C23: get_best_sellers ranks the sales of every product, deleted or not: a
\* soft-deleted product that sold the most units (or for the most money) in
\* the window is bestByQuantity (bestByRevenue), while getProduct does not
\* find it, no page of listProducts holds it, and the getSummary totals are
\* those of the non-deleted products alone.
C23_DeletedProductStillRanked ==
    \A p \in DOMAIN products :
        ~Visible(p) =>
            /\ \A fromTs, toTs \in RangeBounds :
                  LET r == getBestSellers(fromTs, toTs)
                      Q(q) == QuantityIn(q, fromTs, toTs, Len(sales))
                      R(q) == RevenueIn(q, fromTs, toTs, Len(sales))
                  IN  /\ (\A q \in ProductIds \ {p} : Q(q) < Q(p))
                            => /\ r.bestByQuantity # NULL
                               /\ r.bestByQuantity[1].productId = p
                      /\ (\A q \in ProductIds \ {p} : R(q) < R(p))
                            => /\ r.bestByRevenue # NULL
                               /\ r.bestByRevenue[1].productId = p
            /\ fetchProductById(p) = NULL
            /\ \A ord \in order_by_name : \A limit \in 1..MaxLimit :
                  \A page \in 1..MaxProducts :
                      \A i \in DOMAIN listProducts(page, limit, ord).items :
                          listProducts(page, limit, ord).items[i].id # p
            /\ LET live == {q \in DOMAIN products : Visible(q)}
                   stock == [q \in ProductIds |->
                                IF q \in live THEN products[q].total_stock ELSE 0]
                   sold == [q \in ProductIds |->
                               LedgerQuantity(sales, q, Len(sales))]
               IN  /\ getSummary.totalProducts = Cardinality(live)
                   /\ getSummary.totalStock = SumOverVisible(stock, MaxProducts)
                   /\ getSummary.totalSoldQuantity
                         = SumOverVisible(sold, MaxProducts)
                   /\ getSummary.totalRemainingStock
                         = SumOverVisible(stock, MaxProducts)
                              - SumOverVisible(sold, MaxProducts)

\* a deleted product is both best sellers of the open window next to a live
\* product that sold less, and the summary counts the live product alone
C23_Witness ==
    \E p, q \in DOMAIN products :
        /\ ~Visible(p) /\ Visible(q)
        /\ getBestSellers(NULL, NULL).bestByQuantity # NULL
        /\ getBestSellers(NULL, NULL).bestByQuantity[1].productId = p
        /\ getBestSellers(NULL, NULL).bestByRevenue[1].productId = p
        /\ LedgerQuantity(sales, q, Len(sales)) > 0
        /\ fetchProductById(p) = NULL
        /\ getSummary.totalProducts = 1
        /\ getSummary.totalSoldQuantity = LedgerQuantity(sales, q, Len(sales))

==========================================================================
